---- MODULE Spec2Model ----
(***************************************************************************)
(* A model of axchunk, a vector of fixed-width chunks stored inline in one *)
(* heap buffer (src/axchunk.h and the implementation file part_001).       *)
(*                                                                         *)
(* Memory is modelled byte by byte.  The buffer c->chunks is the sequence  *)
(* `chunks` of cap*width bytes; the byte at C offset o is chunks[o+1].     *)
(* A byte is a number 0..255 or Indet, an indeterminate byte (memory that  *)
(* malloc/realloc handed out and nobody wrote).  An access outside the     *)
(* allocation is undefined: a read yields Indet bytes, a write is lost,    *)
(* `oob` records that it happened and no further operation is modelled.    *)
(***************************************************************************)
EXTENDS Integers, Sequences, FiniteSets, TLC

\* enum {BUFSIZE = 16} of axc_swap
BUFSIZE == 16

\* Bounds of the model.
MaxCap == 4        \* the allocator grants no buffer of more chunks than this
MaxCount == 2      \* largest chkcount passed to axc_write / axc_read
MaxMut == 1        \* operations on a container and its copy after axc_copy

Indet == -1        \* an indeterminate byte
Untouched == -2    \* a byte of a caller's destination buffer nobody wrote
NULL == 0

Widths == {2} \* chunk widths of the general specification
StackWidths == {1, 2, 4, 8, 12, 16, 37}
NewWidths == {0, 1, 2, 3}    \* widths requested of axc_newSized
SwapWidths == {8, 16, 37}    \* below, equal to and above BUFSIZE, 37 = 2 * BUFSIZE + 5
Bases == {4096, 8192}        \* addresses at which the allocator may place the buffer
Contexts == {1}              \* values the caller stores as resize event argument
ItemIds == {1, 2}            \* the distinct chunk values the caller stores

VARIABLES
    chunks,              \* c->chunks: the bytes of the buffer
    base,                \* the address c->chunks points to
    len,                 \* c->len
    cap,                 \* c->cap
    width,               \* c->width
    destroy,             \* c->destroy is set
    resizeEventHandler,  \* c->resizeEventHandler is set
    resizeEventArgs,     \* c->resizeEventArgs
    alive,               \* the container object has not been freed
    oob,                 \* an access outside the allocation has happened
    last,                \* the last operation: arguments, results, callbacks, prior state
    stack,               \* the chunks pushed and not yet popped (reference stack)
    copy,                \* the container axc_copy returned, while the caller holds it
    live                 \* the slots holding an element the container still owns

vars == <<chunks, base, len, cap, width, destroy, resizeEventHandler,
          resizeEventArgs, alive, oob, last, stack, copy, live>>

\* uint64_t arithmetic wraps around at 2^64.  A value within reach of the
\* wrap is written as a negative number, Far(k) = -k standing for 2^64 - k;
\* sums and products of these numbers are then the wrapped sums and products.
Far(k) == 0 - k

\* x < y between two uint64_t values
Below(x, y) == IF (x < 0) = (y < 0) THEN x < y ELSE y < 0

MIN(x, y) == IF Below(x, y) THEN x ELSE y
MAX(x, y) == IF Below(y, x) THEN x ELSE y

RECURSIVE Flatten(_)
Flatten(ss) == IF ss = <<>> THEN <<>> ELSE Head(ss) \o Flatten(Tail(ss))

\* The k-th chunk value of width w the caller stores; all its bytes differ.
Item(w, k) == [b \in 1..w |-> (16 * k + b) % 256]
Items(w) == {Item(w, k) : k \in ItemIds}

\* a source array of n chunks for axc_write: the chunk values in turn, from the k-th on
Source(w, k, n) == Flatten([j \in 1..n |-> Item(w, ((k + j) % Cardinality(ItemIds)) + 1)])

Fill(n, v) == [b \in 1..n |-> v]

\* The container as a record.
Self == [chunks |-> chunks, base |-> base, len |-> len, cap |-> cap, width |-> width,
         destroy |-> destroy, resizeEventHandler |-> resizeEventHandler,
         resizeEventArgs |-> resizeEventArgs]

(***************************************************************************)
(* Memory primitives.                                                      *)
(***************************************************************************)
\* n bytes at offset off are not all inside the allocation mem
Outside(mem, off, n) == n > 0 /\ (off < 0 \/ off + n > Len(mem))

\* the n bytes read at offset off
Load(mem, off, n) ==
    [b \in 1..n |-> IF off + b >= 1 /\ off + b <= Len(mem) THEN mem[off + b] ELSE Indet]

\* memcpy(mem + off, bytes, n)
memcpy(mem, off, bytes, n) ==
    [b \in 1..Len(mem) |-> IF b > off /\ b <= off + n THEN bytes[b - off] ELSE mem[b]]

\* memmove(mem + off, bytes, n); source and destination never overlap here
memmove(mem, off, bytes, n) == memcpy(mem, off, bytes, n)

axc__quick_memcpy__(mem, off, bytes, n) ==
    CASE n = 1 -> memcpy(mem, off, bytes, 1)
      [] n = 2 -> memcpy(mem, off, bytes, 2)
      [] n = 4 -> memcpy(mem, off, bytes, 4)
      [] n = 8 -> memcpy(mem, off, bytes, 8)
      [] n = 12 -> memcpy(mem, off, bytes, 12)
      [] n = 16 -> memcpy(mem, off, bytes, 16)
      [] OTHER -> memcpy(mem, off, bytes, n)

axc__quick_memmove__(mem, off, bytes, n) ==
    CASE n = 1 -> memmove(mem, off, bytes, 1)
      [] n = 2 -> memmove(mem, off, bytes, 2)
      [] n = 4 -> memmove(mem, off, bytes, 4)
      [] n = 8 -> memmove(mem, off, bytes, 8)
      [] n = 16 -> memmove(mem, off, bytes, 16)
      [] OTHER -> memmove(mem, off, bytes, n)

\* malloc_(n): n indeterminate bytes
malloc_(n) == Fill(n, Indet)

\* realloc_(mem, n): the common prefix is kept, new bytes are indeterminate
realloc_(mem, n) == [b \in 1..n |-> IF b <= Len(mem) THEN mem[b] ELSE Indet]

\* The addresses realloc_ may return for a buffer of size chunks: NULL when it
\* fails, which it may always do and must do beyond the heap limit.
Alloc(size) == IF Below(MaxCap, size) THEN {NULL} ELSE Bases \cup {NULL}

\* byte offset of chunk i from c->chunks
axc__index__(c, i) == i * c.width

\* the bytes of chunk i of container c
Chunk(c, i) == Load(c.chunks, axc__index__(c, i), c.width)

\* the occupied chunks of c, first to last
Content(c) == [i \in 1..c.len |-> Chunk(c, i - 1)]

(***************************************************************************)
(* Callback events and operation results.                                  *)
(***************************************************************************)
\* c->destroy(chunk) on chunk i, holding bytes v, while c->len was n
DestroyEvt(i, v, n) ==
    [k |-> "destroy", i |-> i, v |-> v, len |-> n, offset |-> 0, args |-> 0, cap |-> 0, base |-> 0]

\* f(chunk, arg) of axc_foreach on chunk i, holding bytes v
VisitEvt(i, v, n) ==
    [k |-> "visit", i |-> i, v |-> v, len |-> n, offset |-> 0, args |-> 0, cap |-> 0, base |-> 0]

\* c->resizeEventHandler(c, offset, c->resizeEventArgs), c as the handler sees it
ResizeEvt(offset, c) ==
    [k |-> "resize", i |-> 0, v |-> <<>>, len |-> c.len, offset |-> offset,
     args |-> c.resizeEventArgs, cap |-> c.cap, base |-> c.base]

\* c: the container afterwards; fail: the bool result; count: the integer result;
\* val: the pointer result; dest: the caller's destination buffer afterwards
\* realloc_(c->chunks, n) returned p
ReallocEvt(n, p, c) ==
    [k |-> "realloc", i |-> n, v |-> <<>>, len |-> c.len, offset |-> 0, args |-> 0,
     cap |-> c.cap, base |-> p]

\* free_(c->chunks) (k = "free_chunks") or free_(c) (k = "free_c")
FreeEvt(k, c) ==
    [k |-> k, i |-> 0, v |-> <<>>, len |-> c.len, offset |-> 0, args |-> 0,
     cap |-> c.cap, base |-> c.base]

Res(c, fail, count, dest, calls, bad) ==
    [c |-> c, fail |-> fail, count |-> count, val |-> NULL, dest |-> dest,
     calls |-> calls, oob |-> bad]

(***************************************************************************)
(* The operations, as functions from the container to their result.        *)
(***************************************************************************)
\* axc_newSized taking the width and the size as given
axc_newSized_uncoerced(w, n) ==
    [chunks |-> malloc_(n * w), base |-> NULL, len |-> 0, cap |-> n, width |-> w,
     destroy |-> FALSE, resizeEventHandler |-> FALSE, resizeEventArgs |-> Indet]

axc_newSized(w, n) ==
    LET size == n + (IF n = 0 THEN 1 ELSE 0)
        wd == w + (IF w = 0 THEN 1 ELSE 0)
    IN [chunks |-> malloc_(size * wd), base |-> NULL, len |-> 0, cap |-> size, width |-> wd,
        destroy |-> FALSE, resizeEventHandler |-> FALSE, resizeEventArgs |-> Indet]

\* axc_resize taking the move of the buffer for a removal of its chunks
axc_resize_finalizing(c, n, p) ==
    LET size == n + (IF n = 0 THEN 1 ELSE 0) IN
    IF size = c.cap THEN Res(c, FALSE, 0, <<>>, <<>>, FALSE)
    ELSE IF p = NULL
    THEN Res(c, TRUE, 0, <<>>, <<ReallocEvt(size * c.width, p, c)>>, FALSE)
    ELSE LET c1 == [c EXCEPT !.chunks = realloc_(c.chunks, size * c.width),
                             !.base = p, !.cap = size]
         IN Res(c1, FALSE, 0, <<>>,
                <<ReallocEvt(size * c.width, p, c)>>
                    \o (IF c.destroy /\ p # c.base
                        THEN [j \in 1..c.len |-> DestroyEvt(j - 1, Chunk(c, j - 1), c.len)]
                        ELSE <<>>)
                    \o (IF c.resizeEventHandler THEN <<ResizeEvt(p - c.base, c1)>> ELSE <<>>),
                FALSE)

\* axc_resize telling the handler only of a buffer that moved
axc_resize_silent(c, n, p) ==
    LET size == n + (IF n = 0 THEN 1 ELSE 0) IN
    IF size = c.cap THEN Res(c, FALSE, 0, <<>>, <<>>, FALSE)
    ELSE IF p = NULL
    THEN Res(c, TRUE, 0, <<>>, <<ReallocEvt(size * c.width, p, c)>>, FALSE)
    ELSE LET c1 == [c EXCEPT !.chunks = realloc_(c.chunks, size * c.width),
                             !.base = p, !.cap = size]
         IN Res(c1, FALSE, 0, <<>>,
                <<ReallocEvt(size * c.width, p, c)>>
                    \o (IF c.resizeEventHandler /\ p # c.base
                        THEN <<ResizeEvt(p - c.base, c1)>> ELSE <<>>),
                FALSE)

\* axc_resize storing the new capacity before it knows realloc_ succeeded
axc_resize_early(c, n, p) ==
    LET size == n + (IF n = 0 THEN 1 ELSE 0) IN
    IF size = c.cap THEN Res(c, FALSE, 0, <<>>, <<>>, FALSE)
    ELSE IF p = NULL
    THEN Res([c EXCEPT !.cap = size], TRUE, 0, <<>>, <<ReallocEvt(size * c.width, p, c)>>, FALSE)
    ELSE LET c1 == [c EXCEPT !.chunks = realloc_(c.chunks, size * c.width),
                             !.base = p, !.cap = size]
         IN Res(c1, FALSE, 0, <<>>,
                <<ReallocEvt(size * c.width, p, c)>>
                    \o (IF c.resizeEventHandler THEN <<ResizeEvt(p - c.base, c1)>> ELSE <<>>),
                FALSE)

\* p is what realloc_ returns
axc_resize(c, n, p) ==
    LET size == n + (IF n = 0 THEN 1 ELSE 0) IN
    IF size = c.cap THEN Res(c, FALSE, 0, <<>>, <<>>, FALSE)
    ELSE IF p = NULL
    THEN Res(c, TRUE, 0, <<>>, <<ReallocEvt(size * c.width, p, c)>>, FALSE)
    ELSE LET c1 == [c EXCEPT !.chunks = realloc_(c.chunks, size * c.width),
                             !.base = p, !.cap = size]
         IN Res(c1, FALSE, 0, <<>>,
                <<ReallocEvt(size * c.width, p, c)>>
                    \o (IF c.resizeEventHandler THEN <<ResizeEvt(p - c.base, c1)>> ELSE <<>>),
                FALSE)

\* axc_index taking the index one past the last chunk for a chunk
axc_index_inclusive(c, i) ==
    [Res(c, FALSE, 0, <<>>, <<>>, FALSE)
        EXCEPT !.val = IF i <= c.len THEN c.base + i * c.width ELSE NULL]

\* val is the returned pointer
axc_index(c, i) ==
    [Res(c, FALSE, 0, <<>>, <<>>, FALSE)
        EXCEPT !.val = IF i < c.len THEN c.base + i * c.width ELSE NULL]

axc_push(c, item, p) ==
    LET r == IF c.len >= c.cap THEN axc_resize(c, 2 * c.cap + 1, p)
             ELSE Res(c, FALSE, 0, <<>>, <<>>, FALSE)
    IN IF r.fail THEN r
       ELSE LET off == axc__index__(r.c, r.c.len) IN
            Res([r.c EXCEPT !.chunks = axc__quick_memcpy__(@, off, item, c.width),
                            !.len = @ + 1],
                FALSE, 0, <<>>, r.calls, Outside(r.c.chunks, off, c.width))

\* axc_pop decrementing c->len after it indexed the chunk
axc_pop_late(c, dest) ==
    IF c.len # 0
    THEN LET off == axc__index__(c, c.len) IN
         Res([c EXCEPT !.len = @ - 1], FALSE, 0,
             axc__quick_memmove__(dest, 0, Load(c.chunks, off, c.width), c.width),
             <<>>, Outside(c.chunks, off, c.width))
    ELSE Res(c, FALSE, 0, dest, <<>>, FALSE)

axc_pop(c, dest) ==
    IF c.len # 0
    THEN LET off == axc__index__(c, c.len - 1) IN
         Res([c EXCEPT !.len = @ - 1], FALSE, 0,
             axc__quick_memmove__(dest, 0, Load(c.chunks, off, c.width), c.width),
             <<>>, Outside(c.chunks, off, c.width))
    ELSE Res(c, FALSE, 0, dest, <<>>, FALSE)

axc_top(c, dest) ==
    IF c.len # 0
    THEN LET off == axc__index__(c, c.len - 1) IN
         Res(c, FALSE, 0,
             axc__quick_memmove__(dest, 0, Load(c.chunks, off, c.width), c.width),
             <<>>, Outside(c.chunks, off, c.width))
    ELSE Res(c, FALSE, 0, dest, <<>>, FALSE)

axc_get(c, i, dest) ==
    IF i < c.len
    THEN LET off == axc__index__(c, i) IN
         Res(c, FALSE, 0,
             axc__quick_memmove__(dest, 0, Load(c.chunks, off, c.width), c.width),
             <<>>, Outside(c.chunks, off, c.width))
    ELSE Res(c, FALSE, 0, dest, <<>>, FALSE)

axc_set(c, i, item, p) ==
    IF i > c.len THEN Res(c, TRUE, 0, <<>>, <<>>, FALSE)
    ELSE IF i = c.len THEN axc_push(c, item, p)
    ELSE LET off == axc__index__(c, i) IN
         Res([c EXCEPT !.chunks = axc__quick_memmove__(@, off, item, c.width)],
             FALSE, 0, <<>>, <<>>, Outside(c.chunks, off, c.width))

RECURSIVE SwapBlocks(_, _, _, _)
\* while (k >= BUFSIZE): exchange BUFSIZE bytes through buf
SwapBlocks(mem, o1, o2, k) ==
    IF k >= BUFSIZE
    THEN LET buf == Load(mem, o1, BUFSIZE)
             m1 == memcpy(mem, o1, Load(mem, o2, BUFSIZE), BUFSIZE)
             m2 == memcpy(m1, o2, buf, BUFSIZE)
         IN SwapBlocks(m2, o1 + BUFSIZE, o2 + BUFSIZE, k - BUFSIZE)
    ELSE [mem |-> mem, o1 |-> o1, o2 |-> o2, k |-> k]

axc_swap(c, i1, i2) ==
    IF i1 = i2 \/ i1 >= c.len \/ i2 >= c.len THEN Res(c, FALSE, 0, <<>>, <<>>, FALSE)
    ELSE LET s == SwapBlocks(c.chunks, axc__index__(c, i1), axc__index__(c, i2), c.width)
             mem == IF s.k # 0
                    THEN LET buf == Load(s.mem, s.o1, s.k)
                             m1 == axc__quick_memcpy__(s.mem, s.o1, Load(s.mem, s.o2, s.k), s.k)
                         IN axc__quick_memcpy__(m1, s.o2, buf, s.k)
                    ELSE s.mem
         IN Res([c EXCEPT !.chunks = mem], FALSE, 0, <<>>, <<>>,
                Outside(c.chunks, axc__index__(c, i1), c.width)
                    \/ Outside(c.chunks, axc__index__(c, i2), c.width))

\* f returns false on chunk stop and true on the chunks before it; f only reads
axc_foreach(c, stop) ==
    LET m == IF stop < c.len THEN stop + 1 ELSE c.len IN
    Res(c, FALSE, 0, <<>>, [j \in 1..m |-> VisitEvt(j - 1, Chunk(c, j - 1), c.len)],
        Outside(c.chunks, 0, m * c.width))

RECURSIVE FilterLoop(_, _, _, _, _, _)
\* the loop of axc_filter from index i on: keep is the set of indices for which
\* f returns true, fi the index filterChunk points to
FilterLoop(c, keep, i, fi, mem, calls) ==
    IF i >= c.len THEN [mem |-> mem, fi |-> fi, i |-> i, calls |-> calls]
    ELSE IF i \in keep
    THEN FilterLoop(c, keep, i + 1, fi + 1,
                    IF i # fi
                    THEN axc__quick_memcpy__(mem, fi * c.width, Load(mem, i * c.width, c.width), c.width)
                    ELSE mem,
                    calls)
    ELSE FilterLoop(c, keep, i + 1, fi, mem,
                    IF c.destroy
                    THEN Append(calls, DestroyEvt(i, Load(mem, i * c.width, c.width), c.len))
                    ELSE calls)

\* axc_filter counting the rejected chunks without closing the gaps
axc_filter_gaps(c, keep) ==
    LET l == FilterLoop(c, keep, 0, 0, c.chunks, <<>>) IN
    Res([c EXCEPT !.len = @ - (l.i - l.fi)], FALSE, 0, <<>>, l.calls,
        Outside(c.chunks, 0, c.len * c.width))

axc_filter(c, keep) ==
    LET l == FilterLoop(c, keep, 0, 0, c.chunks, <<>>) IN
    Res([c EXCEPT !.chunks = l.mem, !.len = @ - (l.i - l.fi)], FALSE, 0, <<>>, l.calls,
        Outside(c.chunks, 0, c.len * c.width))

\* for (chunk = c->chunks; c->len; --c->len) { c->destroy(chunk); chunk += c->width; }
DestroyAll(c) == [j \in 1..c.len |-> DestroyEvt(j - 1, Chunk(c, j - 1), c.len - (j - 1))]

\* axc_clear resetting the length without the destructor
axc_clear_unfinalized(c) ==
    Res([c EXCEPT !.len = 0], FALSE, 0, <<>>, <<>>, FALSE)

axc_clear(c) ==
    IF c.destroy
    THEN Res([c EXCEPT !.len = 0], FALSE, 0, <<>>, DestroyAll(c),
             Outside(c.chunks, 0, c.len * c.width))
    ELSE Res([c EXCEPT !.len = 0], FALSE, 0, <<>>, <<>>, FALSE)

\* axc_discard walking the removed chunks upwards
axc_discard_forward(c, n0) ==
    LET n == c.len - MIN(c.len, n0) IN
    IF c.destroy
    THEN Res([c EXCEPT !.len = n], FALSE, 0, <<>>,
             [j \in 1..(c.len - n) |-> DestroyEvt(n + j - 1, Chunk(c, n + j - 1), c.len - (j - 1))],
             Outside(c.chunks, axc__index__(c, n), (c.len - n) * c.width))
    ELSE Res([c EXCEPT !.len = n], FALSE, 0, <<>>, <<>>, FALSE)

\* axc_discard dropping the chunks without the destructor
axc_discard_plain(c, n0) ==
    LET n == c.len - MIN(c.len, n0) IN
    Res([c EXCEPT !.len = n], FALSE, 0, <<>>, <<>>, FALSE)

axc_discard(c, n0) ==
    LET n == c.len - MIN(c.len, n0) IN
    IF c.destroy
    THEN Res([c EXCEPT !.len = n], FALSE, 0, <<>>,
             [j \in 1..(c.len - n) |-> DestroyEvt(c.len - j, Chunk(c, c.len - j), c.len - (j - 1))],
             Outside(c.chunks, axc__index__(c, n), (c.len - n) * c.width))
    ELSE Res([c EXCEPT !.len = n], FALSE, 0, <<>>, <<>>, FALSE)

\* axc_destroy releasing the buffer before it finalizes the chunks
axc_destroy_hasty(c) ==
    IF c.destroy
    THEN [Res([c EXCEPT !.len = 0], FALSE, 0, <<>>,
              <<FreeEvt("free_chunks", c)>> \o DestroyAll(c)
                  \o <<FreeEvt("free_c", [c EXCEPT !.len = 0])>>,
              Outside(c.chunks, 0, c.len * c.width)) EXCEPT !.val = c.resizeEventArgs]
    ELSE [Res(c, FALSE, 0, <<>>, <<FreeEvt("free_chunks", c), FreeEvt("free_c", c)>>, FALSE)
              EXCEPT !.val = c.resizeEventArgs]

\* the container afterwards is the freed object; val is the returned pointer
axc_destroy(c) ==
    IF c.destroy
    THEN [Res([c EXCEPT !.len = 0], FALSE, 0, <<>>,
              DestroyAll(c)
                  \o <<FreeEvt("free_chunks", [c EXCEPT !.len = 0]),
                       FreeEvt("free_c", [c EXCEPT !.len = 0])>>,
              Outside(c.chunks, 0, c.len * c.width)) EXCEPT !.val = c.resizeEventArgs]
    ELSE [Res(c, FALSE, 0, <<>>, <<FreeEvt("free_chunks", c), FreeEvt("free_c", c)>>, FALSE)
              EXCEPT !.val = c.resizeEventArgs]

\* axc_destroySoft finalizing the chunks as axc_destroy does
axc_destroySoft_finalizing(c) ==
    [Res(c, FALSE, 0, c.chunks,
         (IF c.destroy THEN DestroyAll(c) ELSE <<>>) \o <<FreeEvt("free_c", c)>>, FALSE)
        EXCEPT !.val = c.base]

\* val is the returned pointer c->chunks, dest the bytes of the buffer it points to
axc_destroySoft(c) ==
    [Res(c, FALSE, 0, c.chunks, <<FreeEvt("free_c", c)>>, FALSE) EXCEPT !.val = c.base]

\* p is what malloc_ returns; val is the returned pointer, dest the bytes it points to
axc_internalCopy(c, p) ==
    LET size == MAX(c.len * c.width, 1) IN
    IF p = NULL THEN Res(c, FALSE, 0, <<>>, <<>>, FALSE)
    ELSE [Res(c, FALSE, 0, memcpy(malloc_(size), 0, Load(c.chunks, 0, size), size), <<>>,
              Outside(c.chunks, 0, size))
             EXCEPT !.val = p]

\* axc_copy handing out a container that points to the buffer of the original
axc_copy_shallow(c, p) ==
    IF p = NULL THEN [made |-> FALSE, c |-> c, oob |-> FALSE]
    ELSE [made |-> TRUE,
          c |-> [axc_newSized(c.width, c.cap) EXCEPT !.base = c.base, !.chunks = c.chunks,
                                                     !.len = c.len],
          oob |-> FALSE]

\* p is the address malloc_ returns for the buffer of the copy, NULL when it or
\* the allocation of the container object fails; c is the copy
axc_copy(c, p) ==
    IF p = NULL THEN [made |-> FALSE, c |-> c, oob |-> FALSE]
    ELSE [made |-> TRUE,
          c |-> [axc_newSized(c.width, c.cap) EXCEPT
                    !.base = p,
                    !.chunks = memcpy(@, 0, Load(c.chunks, 0, c.width * c.len), c.width * c.len),
                    !.len = c.len],
          oob |-> Outside(c.chunks, 0, c.width * c.len)]

\* axc_write running its destructor pass before it asks for more capacity
axc_write_finalizing_first(c, i, src, chkcount, p) ==
    LET nd == IF c.destroy /\ i < c.len THEN MIN(chkcount, c.len - i) ELSE 0
        calls == [k \in 1..nd |-> DestroyEvt(i + k - 1, Chunk(c, i + k - 1), c.len)]
        r == IF i + chkcount > c.cap
             THEN axc_resize(c, MAX(2 * c.cap + 1, i + chkcount), p)
             ELSE Res(c, FALSE, 0, <<>>, <<>>, FALSE)
    IN IF r.fail THEN [r EXCEPT !.calls = calls \o @]
       ELSE LET c1 == r.c
                off == axc__index__(c1, i)
            IN Res([c1 EXCEPT !.chunks = axc__quick_memmove__(@, off, src, chkcount * c1.width),
                              !.len = MAX(i + chkcount, @)],
                   FALSE, 0, <<>>, calls \o r.calls,
                   Outside(c1.chunks, off, chkcount * c1.width))

\* axc_write handing the destructor the chunks after it stored the new ones
axc_write_overwriting(c, i, src, chkcount, p) ==
    LET r == IF i + chkcount > c.cap
             THEN axc_resize(c, MAX(2 * c.cap + 1, i + chkcount), p)
             ELSE Res(c, FALSE, 0, <<>>, <<>>, FALSE)
    IN IF r.fail THEN r
       ELSE LET c1 == r.c
                nd == IF c1.destroy /\ i < c1.len THEN MIN(chkcount, c1.len - i) ELSE 0
                off == axc__index__(c1, i)
                c2 == [c1 EXCEPT !.chunks = axc__quick_memmove__(@, off, src, chkcount * c1.width)]
                calls == [k \in 1..nd |-> DestroyEvt(i + k - 1, Chunk(c2, i + k - 1), c1.len)]
            IN Res([c2 EXCEPT !.len = MAX(i + chkcount, @)],
                   FALSE, 0, <<>>, r.calls \o calls,
                   Outside(c1.chunks, off, chkcount * c1.width))

\* src holds chkcount chunks
\* axc_write growing to exactly i + chkcount chunks, without the doubling
axc_write_exact(c, i, src, chkcount, p) ==
    LET r == IF i + chkcount > c.cap
             THEN axc_resize(c, i + chkcount, p)
             ELSE Res(c, FALSE, 0, <<>>, <<>>, FALSE)
    IN IF r.fail THEN r
       ELSE LET c1 == r.c
                nd == IF c1.destroy /\ i < c1.len THEN MIN(chkcount, c1.len - i) ELSE 0
                calls == [k \in 1..nd |-> DestroyEvt(i + k - 1, Chunk(c1, i + k - 1), c1.len)]
                off == axc__index__(c1, i)
            IN Res([c1 EXCEPT !.chunks = axc__quick_memmove__(@, off, src, chkcount * c1.width),
                              !.len = MAX(i + chkcount, @)],
                   FALSE, 0, <<>>, r.calls \o calls,
                   Outside(c1.chunks, off, chkcount * c1.width))

\* i, chkcount and their sum are uint64_t
axc_write(c, i, src, chkcount, p) ==
    LET r == IF Below(c.cap, i + chkcount)
             THEN axc_resize(c, MAX(2 * c.cap + 1, i + chkcount), p)
             ELSE Res(c, FALSE, 0, <<>>, <<>>, FALSE)
    IN IF r.fail THEN r
       ELSE LET c1 == r.c
                nd == IF c1.destroy /\ Below(i, c1.len) THEN MIN(chkcount, c1.len - i) ELSE 0
                calls == [k \in 1..nd |-> DestroyEvt(i + k - 1, Chunk(c1, i + k - 1), c1.len)]
                off == axc__index__(c1, i)
            IN Res([c1 EXCEPT !.chunks = axc__quick_memmove__(@, off, src, chkcount * c1.width),
                              !.len = MAX(i + chkcount, @)],
                   FALSE, 0, <<>>, r.calls \o calls,
                   Outside(c1.chunks, off, chkcount * c1.width))

\* axc_read clamping the count to the length instead of to length - i
axc_read_long(c, i, dest, chkcount) ==
    IF i >= c.len THEN Res(c, FALSE, 0, dest, <<>>, FALSE)
    ELSE LET n == IF i + chkcount > c.len THEN MIN(chkcount, c.len) ELSE chkcount
             off == axc__index__(c, i)
         IN Res(c, FALSE, n,
                axc__quick_memmove__(dest, 0, Load(c.chunks, off, n * c.width), n * c.width),
                <<>>, Outside(c.chunks, off, n * c.width))

\* dest has room for chkcount chunks
axc_read(c, i, dest, chkcount) ==
    IF i >= c.len THEN Res(c, FALSE, 0, dest, <<>>, FALSE)
    ELSE LET n == IF i + chkcount > c.len THEN chkcount - (i + chkcount - c.len) ELSE chkcount
             off == axc__index__(c, i)
         IN Res(c, FALSE, n,
                axc__quick_memmove__(dest, 0, Load(c.chunks, off, n * c.width), n * c.width),
                <<>>, Outside(c.chunks, off, n * c.width))

(***************************************************************************)
(* The state machine: one action per public operation.  An operation runs  *)
(* from the idle state and leaves its record in `last`; Return is the      *)
(* caller taking the result, after which the next operation can be called. *)
(***************************************************************************)
\* what `last` records of an operation
Op(name, i, j, n, item, keep, r, pre) ==
    [op |-> name, i |-> i, j |-> j, n |-> n, item |-> item, keep |-> keep,
     fail |-> r.fail, count |-> r.count, val |-> r.val, dest |-> r.dest,
     calls |-> r.calls, pre |-> pre]

Idle == [op |-> "idle"]

\* the caller holds no copy of the container
NoCopy == [made |-> FALSE]

\* the container becomes r.c and `last` describes the operation
Do(name, i, j, n, item, keep, r) ==
    /\ chunks' = r.c.chunks
    /\ base' = r.c.base
    /\ len' = r.c.len
    /\ cap' = r.c.cap
    /\ width' = r.c.width
    /\ destroy' = r.c.destroy
    /\ resizeEventHandler' = r.c.resizeEventHandler
    /\ resizeEventArgs' = r.c.resizeEventArgs
    /\ oob' = r.oob
    /\ last' = Op(name, i, j, n, item, keep, r, Self)

Usable == alive /\ ~oob /\ last.op = "idle"

\* The addresses malloc_ may return while the buffer of c is allocated: NULL
\* when it fails, else an address other than that of the buffer.
Malloc(c) == (Bases \ {c.base}) \cup {NULL}

\* realloc_ is reached only when the capacity has to change
ReallocFor(size) == IF size = cap THEN {NULL} ELSE Alloc(size)

\* `live` when the elements are not followed
Untracked == [on |-> FALSE, now |-> {}, before |-> {}]

\* The slots that hold an element of the container after the operation
\* reported in r, S being those slots before it and n the new capacity: a
\* stored item is a new element in its slot, swap and filter move elements, a
\* slot whose element went to the destructor or to the caller of pop holds none.
LiveAfter(S, r, n) ==
    LET L == r.pre.len
        kept == {k \in r.keep : k < L}
        rank(k) == Cardinality({j \in kept : j < k})
        to(k) == IF k = r.i THEN r.j ELSE IF k = r.j THEN r.i ELSE k
    IN CASE r.op = "push" -> IF r.fail THEN S ELSE (S \cup {L}) \cap (0..(n - 1))
         [] r.op = "set" -> IF r.fail THEN S ELSE (S \cup {r.i}) \cap (0..(n - 1))
         [] r.op = "write" ->
                IF r.fail THEN S ELSE (S \cup (r.i..(r.i + r.n - 1))) \cap (0..(n - 1))
         [] r.op = "pop" -> S \ {L - 1}
         [] r.op = "swap" -> IF r.i < L /\ r.j < L THEN {to(k) : k \in S} ELSE S
         [] r.op = "filter" -> {rank(k) : k \in S \cap kept} \cup {k \in S : k >= L}
         [] r.op = "discard" -> S \ ((L - MIN(L, r.n))..(L - 1))
         [] r.op = "clear" -> S \ (0..(L - 1))
         [] r.op = "destroy" -> {}
         [] r.op = "resize" -> S \cap (0..(n - 1))
         [] OTHER -> S

\* the elements are followed through the operation just reported in last'
Track ==
    live' = IF live.on
            THEN [on |-> TRUE, now |-> LiveAfter(live.now, last', cap'), before |-> live.now]
            ELSE live

\* the state after axc_newSized(w, n), for the widths ws
Construct(ws) ==
    \E w \in ws, n \in 0..MaxCap, b \in Bases :
        LET c == [axc_newSized(w, n) EXCEPT !.base = b] IN
        /\ chunks = c.chunks
        /\ base = c.base
        /\ len = c.len
        /\ cap = c.cap
        /\ width = c.width
        /\ destroy = c.destroy
        /\ resizeEventHandler = c.resizeEventHandler
        /\ resizeEventArgs = c.resizeEventArgs
        /\ alive = TRUE
        /\ oob = FALSE
        /\ last = Op("newSized", w, 0, n, <<>>, {}, Res(c, FALSE, 0, <<>>, <<>>, FALSE), c)
        /\ stack = <<>>
        /\ copy = NoCopy

InitWith(ws) == Construct(ws) /\ live = Untracked

Init == InitWith(Widths)

Return ==
    /\ alive /\ ~oob /\ last.op # "idle"
    /\ last' = Idle
    /\ live' = [live EXCEPT !.before = live.now]
    /\ UNCHANGED <<chunks, base, len, cap, width, destroy, resizeEventHandler,
                   resizeEventArgs, alive, oob, stack, copy>>

SetDestructor ==
    /\ Usable
    /\ \E d \in BOOLEAN :
        Do("setDestructor", 0, 0, 0, <<>>, {},
           Res([Self EXCEPT !.destroy = d], FALSE, 0, <<>>, <<>>, FALSE))
    /\ UNCHANGED <<alive, stack, copy>>
    /\ Track

SetResizeEventHandler ==
    /\ Usable
    /\ \E h \in BOOLEAN :
        Do("setResizeEventHandler", 0, 0, 0, <<>>, {},
           Res([Self EXCEPT !.resizeEventHandler = h], FALSE, 0, <<>>, <<>>, FALSE))
    /\ UNCHANGED <<alive, stack, copy>>
    /\ Track

SetContext ==
    /\ Usable
    /\ \E x \in Contexts :
        Do("setContext", 0, 0, 0, <<>>, {},
           Res([Self EXCEPT !.resizeEventArgs = x], FALSE, 0, <<>>, <<>>, FALSE))
    /\ UNCHANGED <<alive, stack, copy>>
    /\ Track

Resize ==
    /\ Usable
    /\ \E n \in 0..(MaxCap + 1) : \E p \in ReallocFor(MAX(n, 1)) :
        Do("resize", 0, 0, n, <<>>, {}, axc_resize(Self, n, p))
    /\ UNCHANGED <<alive, stack, copy>>
    /\ Track

PushStep(item, p) == Do("push", 0, 0, 0, item, {}, axc_push(Self, item, p))

\* the allocator's answers to a push
PushAlloc == IF len >= cap THEN ReallocFor(2 * cap + 1) ELSE {NULL}

Push ==
    /\ Usable
    /\ \E item \in Items(width) : \E p \in PushAlloc : PushStep(item, p)
    /\ UNCHANGED <<alive, stack, copy>>
    /\ Track

PopStep == Do("pop", 0, 0, 0, <<>>, {}, axc_pop(Self, Fill(width, Untouched)))

Pop ==
    /\ Usable
    /\ PopStep
    /\ UNCHANGED <<alive, stack, copy>>
    /\ Track

Top ==
    /\ Usable
    /\ Do("top", 0, 0, 0, <<>>, {}, axc_top(Self, Fill(width, Untouched)))
    /\ UNCHANGED <<alive, stack, copy>>
    /\ Track

Get ==
    /\ Usable
    /\ \E i \in 0..(len + 1) :
        Do("get", i, 0, 0, <<>>, {}, axc_get(Self, i, Fill(width, Untouched)))
    /\ UNCHANGED <<alive, stack, copy>>
    /\ Track

Index ==
    /\ Usable
    /\ \E i \in 0..(len + 1) :
        Do("index", i, 0, 0, <<>>, {}, axc_index(Self, i))
    /\ UNCHANGED <<alive, stack, copy>>
    /\ Track

Set ==
    /\ Usable
    /\ \E i \in 0..(len + 1) : \E item \in Items(width) :
        \E p \in (IF i = len THEN PushAlloc ELSE {NULL}) :
            Do("set", i, 0, 0, item, {}, axc_set(Self, i, item, p))
    /\ UNCHANGED <<alive, stack, copy>>
    /\ Track

Swap ==
    /\ Usable
    /\ \E i1 \in 0..len, i2 \in 0..len :
        Do("swap", i1, i2, 0, <<>>, {}, axc_swap(Self, i1, i2))
    /\ UNCHANGED <<alive, stack, copy>>
    /\ Track

Foreach ==
    /\ Usable
    /\ \E stop \in 0..len :
        Do("foreach", stop, 0, 0, <<>>, {}, axc_foreach(Self, stop))
    /\ UNCHANGED <<alive, stack, copy>>
    /\ Track

Filter ==
    /\ Usable
    /\ \E keep \in SUBSET (0..(len - 1)) :
        Do("filter", 0, 0, 0, <<>>, keep, axc_filter(Self, keep))
    /\ UNCHANGED <<alive, stack, copy>>
    /\ Track

Clear ==
    /\ Usable
    /\ Do("clear", 0, 0, 0, <<>>, {}, axc_clear(Self))
    /\ UNCHANGED <<alive, stack, copy>>
    /\ Track

Discard ==
    /\ Usable
    /\ \E n \in 0..(len + 1) :
        Do("discard", 0, 0, n, <<>>, {}, axc_discard(Self, n))
    /\ UNCHANGED <<alive, stack, copy>>
    /\ Track

Destroy ==
    /\ Usable
    /\ Do("destroy", 0, 0, 0, <<>>, {}, axc_destroy(Self))
    /\ alive' = FALSE
    /\ UNCHANGED <<stack, copy>>
    /\ Track

InternalCopy ==
    /\ Usable
    /\ \E p \in Malloc(Self) :
        Do("internalCopy", 0, 0, 0, <<>>, {}, axc_internalCopy(Self, p))
    /\ UNCHANGED <<alive, stack, copy>>
    /\ Track

DestroySoft ==
    /\ Usable
    /\ Do("destroySoft", 0, 0, 0, <<>>, {}, axc_destroySoft(Self))
    /\ alive' = FALSE
    /\ UNCHANGED <<stack, copy>>
    /\ Track

Write ==
    /\ Usable
    /\ \E i \in 0..MaxCap, n \in 0..MaxCount :
        \E k \in (IF n = 0 THEN {1} ELSE ItemIds) :
        \E p \in (IF i + n > cap THEN ReallocFor(MAX(2 * cap + 1, i + n)) ELSE {NULL}) :
            Do("write", i, 0, n, Source(width, k, n), {},
               axc_write(Self, i, Source(width, k, n), n, p))
    /\ UNCHANGED <<alive, stack, copy>>
    /\ Track

\* axc_write at an index within MaxCount of 2^64
WriteFar ==
    /\ Usable
    /\ \E d \in 1..MaxCount, n \in 0..MaxCount, k \in ItemIds :
        \E p \in (IF Below(cap, Far(d) + n) THEN ReallocFor(MAX(2 * cap + 1, Far(d) + n))
                  ELSE {NULL}) :
            Do("write", Far(d), 0, n, Source(width, k, n), {},
               axc_write(Self, Far(d), Source(width, k, n), n, p))
    /\ UNCHANGED <<alive, stack, copy>>
    /\ Track

Read ==
    /\ Usable
    /\ \E i \in 0..(len + 1), n \in 0..MaxCount :
        Do("read", i, 0, n, <<>>, {}, axc_read(Self, i, Fill(n * width, Untouched), n))
    /\ UNCHANGED <<alive, stack, copy>>
    /\ Track

Next ==
    \/ Return
    \/ SetDestructor
    \/ SetResizeEventHandler
    \/ SetContext
    \/ Resize
    \/ Push
    \/ Pop
    \/ Top
    \/ Get
    \/ Index
    \/ Set
    \/ Swap
    \/ Foreach
    \/ Filter
    \/ Clear
    \/ Discard
    \/ Destroy
    \/ InternalCopy
    \/ DestroySoft
    \/ Write
    \/ Read

Spec == Init /\ [][Next]_vars

\* A container on which only push and pop are called, with the reference stack.
NextWrap == Next \/ WriteFar

SpecWrap == Init /\ [][NextWrap]_vars

\* The lifetime of the elements of one container: `live` follows them.
InitLife == Construct(Widths) /\ live = [on |-> TRUE, now |-> {}, before |-> {}]

NextLife ==
    \/ Return
    \/ SetDestructor
    \/ Push
    \/ Pop
    \/ Set
    \/ Write
    \/ Swap
    \/ Filter
    \/ Discard
    \/ Clear
    \/ Resize
    \/ Destroy

SpecLife == InitLife /\ [][NextLife]_vars

StackPush ==
    /\ Usable
    /\ \E item \in Items(width) : \E p \in PushAlloc :
        /\ PushStep(item, p)
        /\ stack' = IF axc_push(Self, item, p).fail THEN stack ELSE Append(stack, item)
    /\ UNCHANGED <<alive, copy, live>>

StackPop ==
    /\ Usable
    /\ PopStep
    /\ stack' = IF stack = <<>> THEN stack ELSE SubSeq(stack, 1, Len(stack) - 1)
    /\ UNCHANGED <<alive, copy, live>>

NextStack == Return \/ StackPush \/ StackPop

SpecStack == InitWith(StackWidths) /\ [][NextStack]_vars

\* A program that makes a container, fills it, destroys it and makes another.
New ==
    /\ ~alive
    /\ \E w \in NewWidths, n \in 0..MaxCap, b \in Bases :
        LET c == [axc_newSized(w, n) EXCEPT !.base = b] IN
        /\ chunks' = c.chunks
        /\ base' = c.base
        /\ len' = c.len
        /\ cap' = c.cap
        /\ width' = c.width
        /\ destroy' = c.destroy
        /\ resizeEventHandler' = c.resizeEventHandler
        /\ resizeEventArgs' = c.resizeEventArgs
        /\ alive' = TRUE
        /\ oob' = FALSE
        /\ last' = Op("newSized", w, 0, n, <<>>, {}, Res(c, FALSE, 0, <<>>, <<>>, FALSE), c)
        /\ stack' = <<>>
        /\ copy' = NoCopy
        /\ live' = live

NextNew == Return \/ New \/ SetDestructor \/ SetResizeEventHandler \/ Push \/ Destroy

SpecNew == InitWith(NewWidths) /\ [][NextNew]_vars

\* Containers of chunks narrower and wider than the buffer of axc_swap.
NextSwap == Return \/ Push \/ Pop \/ Resize \/ Swap

SpecSwap == InitWith(SwapWidths) /\ [][NextSwap]_vars

\* A container and a copy of it.  Memory is shared by address: a store through
\* one container is seen through every container that points to the same buffer.
Shared(other, before, after) ==
    IF other.base = before.base THEN [other EXCEPT !.chunks = after.chunks] ELSE other

\* the original is built while no copy exists
Build ==
    /\ ~copy.made
    /\ SetDestructor \/ SetResizeEventHandler \/ Push \/ Pop \/ Resize

Copy ==
    /\ Usable /\ ~copy.made
    /\ \E p \in Malloc(Self) :
        LET r == axc_copy(Self, p) IN
        /\ copy' = IF r.made THEN [made |-> TRUE, c |-> r.c, pre |-> r.c, muts |-> 0]
                    ELSE NoCopy
        /\ Do("copy", 0, 0, 0, <<>>, {},
              [Res(Self, FALSE, 0, <<>>, <<>>, r.oob) EXCEPT !.val = p])
    /\ UNCHANGED <<alive, stack, live>>

\* axc_set on the original while the copy exists
SetOriginal ==
    /\ Usable /\ copy.made /\ copy.muts < MaxMut
    /\ \E i \in 0..len : \E item \in Items(width) :
        \E p \in (IF i = len THEN PushAlloc \ {copy.c.base} ELSE {NULL}) :
            LET r == axc_set(Self, i, item, p) IN
            /\ Do("set", i, 0, 0, item, {}, r)
            /\ copy' = [copy EXCEPT !.pre = copy.c, !.c = Shared(copy.c, Self, r.c),
                                     !.muts = @ + 1]
    /\ UNCHANGED <<alive, stack, live>>

\* axc_set on the copy
SetCopy ==
    /\ Usable /\ copy.made /\ copy.muts < MaxMut
    /\ \E i \in 0..copy.c.len : \E item \in Items(width) :
        \E p \in (IF i = copy.c.len /\ copy.c.len >= copy.c.cap
                   THEN Alloc(2 * copy.c.cap + 1) \ {base} ELSE {NULL}) :
            LET r == axc_set(copy.c, i, item, p) IN
            /\ copy' = [copy EXCEPT !.pre = copy.c, !.c = r.c, !.muts = @ + 1]
            /\ chunks' = Shared(Self, copy.c, r.c).chunks
            /\ oob' = r.oob
            /\ last' = Op("setCopy", i, 0, 0, item, {}, r, Self)
    /\ UNCHANGED <<base, len, cap, width, destroy, resizeEventHandler, resizeEventArgs,
                   alive, stack, live>>

NextCopy == Return \/ Build \/ Copy \/ SetOriginal \/ SetCopy

SpecCopy == Init /\ [][NextCopy]_vars

(***************************************************************************)
(* Properties.  `last.pre` is the container before the last operation and  *)
(* Self the container after it.                                            *)
(***************************************************************************)
DestroyCalls == SelectSeq(last.calls, LAMBDA e : e.k = "destroy")
ResizeCalls == SelectSeq(last.calls, LAMBDA e : e.k = "resize")
ReallocCalls == SelectSeq(last.calls, LAMBDA e : e.k = "realloc")
Called(name) == last.op = name

\* the destructor ran exactly once on each chunk whose index is in S, and on
\* no other, each time on the bytes the chunk held before the operation
DestroyedExactly(S) ==
    /\ Len(DestroyCalls) = Cardinality(S)
    /\ {DestroyCalls[k].i : k \in 1..Len(DestroyCalls)} = S
    /\ \A k \in 1..Len(DestroyCalls) :
           DestroyCalls[k].v = Chunk(last.pre, DestroyCalls[k].i)

\* C1: in every reachable state length <= capacity, capacity >= 1 and
\* width >= 1, and no operation changes the width.
C1_Invariants ==
    /\ len <= cap
    /\ cap >= 1
    /\ width >= 1
    /\ (last.op # "idle" => width = last.pre.width)

\* C2 as stated: with a destructor set, pop too runs the destructor once on
\* the popped chunk.
C2_PopDestroys ==
    (Called("pop") /\ last.pre.destroy /\ last.pre.len > 0)
        => DestroyedExactly({last.pre.len - 1})

\* C2 amended: with a destructor set, discard, clear, destroy, filter and a
\* successful write run the destructor exactly once on each chunk they remove
\* or overwrite and on no other chunk; pop runs no destructor.
C2_DestructorOnRemoval ==
    last.op # "idle" /\ last.pre.destroy =>
        /\ Called("pop") => DestroyCalls = <<>>
        /\ Called("discard") =>
              DestroyedExactly((last.pre.len - MIN(last.n, last.pre.len))..(last.pre.len - 1))
        /\ Called("clear") \/ Called("destroy") => DestroyedExactly(0..(last.pre.len - 1))
        /\ Called("filter") => DestroyedExactly((0..(last.pre.len - 1)) \ last.keep)
        /\ Called("write") /\ ~last.fail =>
              DestroyedExactly({i \in last.i..(last.i + last.n - 1) : i < last.pre.len})

C2_Witness ==
    /\ Called("write") /\ ~last.fail /\ last.pre.destroy
    /\ last.n = 2 /\ last.i + 1 = last.pre.len
    /\ Len(DestroyCalls) = 1

\* C3: no destructor call in swap, resize, push or set; in filter none on a
\* retained chunk; in write none outside the overwritten range (so none for
\* the chunks the reallocation moved).
C3_NoDestructorOnRelocation ==
    /\ Called("swap") \/ Called("resize") \/ Called("push") \/ Called("set")
          => DestroyCalls = <<>>
    /\ Called("filter") =>
          \A k \in 1..Len(DestroyCalls) : DestroyCalls[k].i \notin last.keep
    /\ Called("write") =>
          \A k \in 1..Len(DestroyCalls) :
              /\ DestroyCalls[k].i >= last.i
              /\ DestroyCalls[k].i < last.i + last.n

C3_Witness ==
    /\ Called("resize") /\ last.pre.destroy
    /\ last.pre.len = 2 /\ cap = 3 /\ base # last.pre.base

C5_FailedGrowth ==
    (Called("resize") \/ Called("push") \/ Called("set"))
        /\ (\E k \in 1..Len(ReallocCalls) : ReallocCalls[k].base = NULL)
    => /\ last.fail
       /\ Self = last.pre
       /\ ResizeCalls = <<>>
       /\ DestroyCalls = <<>>

C5_Witness ==
    /\ Called("set") /\ last.fail /\ last.i = last.pre.len
    /\ last.pre.len = 3
    /\ last.pre.destroy /\ last.pre.resizeEventHandler
    /\ Len(ReallocCalls) = 1

\* C6: on a container that is only pushed to and popped from, the occupied
\* chunks are the pushed and not yet popped chunks in push order; a pop on a
\* non-empty container returns the bytes of the last of them, removes it and
\* decreases the length by 1.
C6_LIFO ==
    /\ Content(Self) = stack
    /\ (Called("push") /\ ~last.fail) =>
          /\ stack = Append(Content(last.pre), last.item)
          /\ len = last.pre.len + 1
    /\ (Called("pop") /\ last.pre.len > 0) =>
          /\ last.dest = Content(last.pre)[last.pre.len]
          /\ Content(last.pre) = Append(stack, last.dest)
          /\ len = last.pre.len - 1

C6_Witness ==
    /\ Called("pop") /\ width = 37
    /\ last.pre.cap = 3
    /\ Content(last.pre) = <<Item(37, 1), Item(37, 2), Item(37, 1)>>
    /\ last.dest = Item(37, 1)

RECURSIVE Retained(_, _, _)
\* the chunks of c from index i on whose index is in keep, in order
Retained(c, keep, i) ==
    IF i >= c.len THEN <<>>
    ELSE (IF i \in keep THEN <<Chunk(c, i)>> ELSE <<>>) \o Retained(c, keep, i + 1)

\* C7: after filter the container holds exactly the chunks for which the
\* predicate returned true, in their original order, the length is their
\* number and the capacity is unchanged; with an always-true predicate the
\* container is unchanged; with an always-false predicate the length is 0
\* and the destructor ran once on every chunk, first to last, each holding
\* its original bytes.
C7_Filter ==
    Called("filter") =>
        /\ Content(Self) = Retained(last.pre, last.keep, 0)
        /\ len = Cardinality(last.keep)
        /\ cap = last.pre.cap
        /\ last.keep = 0..(last.pre.len - 1) => Self = last.pre
        /\ last.keep = {} =>
              /\ len = 0
              /\ last.pre.destroy =>
                    /\ Len(DestroyCalls) = last.pre.len
                    /\ \A k \in 1..last.pre.len :
                          /\ DestroyCalls[k].i = k - 1
                          /\ DestroyCalls[k].v = Chunk(last.pre, k - 1)

C7_Witness ==
    /\ Called("filter") /\ last.pre.destroy
    /\ last.keep = {1, 3}
    /\ Content(last.pre) = <<Item(2, 1), Item(2, 2), Item(2, 2), Item(2, 1)>>
    /\ Content(Self) = <<Item(2, 2), Item(2, 1)>>

\* C8: set with index > length fails and changes nothing; with index = length
\* it has the effect and result of push; with index < length it stores the
\* item in that chunk, changes no other chunk, length or capacity, and runs
\* no destructor.
C8_Set ==
    Called("set") =>
        /\ last.i > last.pre.len => last.fail /\ Self = last.pre /\ last.calls = <<>>
        /\ last.i = last.pre.len =>
              \E p \in Bases \cup {NULL} :
                  LET r == axc_push(last.pre, last.item, p) IN
                  /\ r.c = Self
                  /\ r.fail = last.fail
                  /\ r.calls = last.calls
        /\ last.i < last.pre.len =>
              /\ ~last.fail
              /\ Chunk(Self, last.i) = last.item
              /\ \A k \in 0..(last.pre.len - 1) :
                    k # last.i => Chunk(Self, k) = Chunk(last.pre, k)
              /\ len = last.pre.len
              /\ cap = last.pre.cap
              /\ last.calls = <<>>

\* C9: read copies the min(count, length - index) chunks from index on into
\* dest and returns their number when index < length, returns 0 when
\* index >= length, writes no other byte of dest and leaves the container
\* unchanged.
C9_Read ==
    Called("read") =>
        LET m == IF last.i < last.pre.len THEN MIN(last.n, last.pre.len - last.i) ELSE 0 IN
        /\ last.count = m
        /\ Len(last.dest) = last.n * width
        /\ \A k \in 0..(m - 1) :
              SubSeq(last.dest, k * width + 1, (k + 1) * width) = Chunk(last.pre, last.i + k)
        /\ \A b \in (m * width + 1)..(last.n * width) : last.dest[b] = Untouched
        /\ Self = last.pre

C9_Witness ==
    /\ Called("read") /\ last.n = 2 /\ last.i = 2 /\ last.pre.len = 3
    /\ last.count = 1
    /\ last.dest = Item(2, 2) \o Fill(2, Untouched)

RECURSIVE PushAll(_, _, _)
\* the container after pushing the n chunks of src one by one, realloc_
\* growing the buffer in place
PushAll(c, src, n) ==
    IF n = 0 THEN c
    ELSE PushAll(axc_push(c, SubSeq(src, 1, c.width), c.base).c,
                 SubSeq(src, c.width + 1, Len(src)), n - 1)

\* C10: a successful write of count chunks at index = length leaves the
\* length (old length + count) and the occupied chunks that pushing the
\* count chunks one by one leaves, and runs no destructor.
C10_WriteIsPushes ==
    (Called("write") /\ ~last.fail /\ last.i = last.pre.len) =>
        /\ len = last.pre.len + last.n
        /\ len = PushAll(last.pre, last.item, last.n).len
        /\ Content(Self) = Content(PushAll(last.pre, last.item, last.n))
        /\ DestroyCalls = <<>>

\* C11: with a destructor set, a successful write(index, source, count) runs
\* the destructor exactly once on each chunk of [index, index + count) that
\* lay below the prior length, in ascending order, on the bytes the chunk held
\* before the write, and on no other chunk; afterwards the length is
\* max(prior length, index + count) and the chunks index .. index + count - 1
\* hold the source chunks.
C11_WriteFinalizes ==
    (Called("write") /\ ~last.fail /\ last.pre.destroy) =>
        LET m == IF last.i < last.pre.len THEN MIN(last.n, last.pre.len - last.i) ELSE 0 IN
        /\ Len(DestroyCalls) = m
        /\ \A k \in 1..m :
              /\ DestroyCalls[k].i = last.i + k - 1
              /\ DestroyCalls[k].v = Chunk(last.pre, last.i + k - 1)
        /\ len = MAX(last.pre.len, last.i + last.n)
        /\ \A k \in 0..(last.n - 1) :
              Chunk(Self, last.i + k) = SubSeq(last.item, k * width + 1, (k + 1) * width)

C11_Witness ==
    /\ Called("write") /\ ~last.fail /\ last.pre.destroy
    /\ last.i = 1 /\ last.n = 2
    /\ Content(last.pre) = <<Item(2, 1), Item(2, 1), Item(2, 2)>>
    /\ Len(DestroyCalls) = 2
    /\ Content(Self) = <<Item(2, 1), Item(2, 2), Item(2, 1)>>

\* C12: discard(n) removes exactly the last min(n, length) chunks: the length
\* decreases by that number, the buffer, the capacity and the remaining
\* chunks are unchanged; with a destructor set it runs once on each removed
\* chunk, last to first, and without one nothing runs; discard(n) with
\* n >= length leaves length 0 after finalizing all chunks last to first.
C12_Discard ==
    Called("discard") =>
        LET m == MIN(last.n, last.pre.len) IN
        /\ Self = [last.pre EXCEPT !.len = last.pre.len - m]
        /\ Content(Self) = SubSeq(Content(last.pre), 1, last.pre.len - m)
        /\ last.n >= last.pre.len => len = 0
        /\ Len(DestroyCalls) = IF last.pre.destroy THEN m ELSE 0
        /\ \A k \in 1..Len(DestroyCalls) :
              /\ DestroyCalls[k].i = last.pre.len - k
              /\ DestroyCalls[k].v = Chunk(last.pre, last.pre.len - k)

C12_Witness ==
    /\ Called("discard") /\ last.pre.destroy
    /\ last.n = 2 /\ last.pre.len = 3
    /\ Len(DestroyCalls) = 2
    /\ DestroyCalls[1].i = 2 /\ DestroyCalls[1].v = Item(2, 1)
    /\ DestroyCalls[2].i = 1 /\ DestroyCalls[2].v = Item(2, 2)
    /\ Content(Self) = <<Item(2, 1)>>

\* the chunks the destructor was called on, as <<index, bytes>>, in call order
Finalized(calls) ==
    LET d == SelectSeq(calls, LAMBDA e : e.k = "destroy")
    IN [k \in 1..Len(d) |-> <<d[k].i, d[k].v>>]

Reverse(s) == [k \in 1..Len(s) |-> s[Len(s) + 1 - k]]

\* C13 as stated: clear leaves the container discard(length) leaves and runs
\* the same sequence of destructor calls.
C13_ClearIsDiscard ==
    Called("clear") =>
        LET r == axc_discard(last.pre, last.pre.len) IN
        /\ Self = r.c
        /\ Finalized(last.calls) = Finalized(r.calls)

\* C13 amended: clear leaves the container discard(length) leaves (length 0,
\* capacity and buffer unchanged) and runs the destructor on the same chunks,
\* but first to last, the reverse of the order of discard.
C13_ClearIsDiscardReversed ==
    Called("clear") =>
        LET r == axc_discard(last.pre, last.pre.len) IN
        /\ Self = r.c
        /\ len = 0
        /\ cap = last.pre.cap
        /\ Finalized(last.calls) = Reverse(Finalized(r.calls))
        /\ \A k \in 1..Len(DestroyCalls) : DestroyCalls[k].i = k - 1

C13_Witness ==
    /\ Called("clear") /\ last.pre.destroy
    /\ Content(last.pre) = <<Item(2, 1), Item(2, 2), Item(2, 2)>>
    /\ Finalized(last.calls) = <<<<0, Item(2, 1)>>, <<1, Item(2, 2)>>, <<2, Item(2, 2)>>>>
    /\ len = 0

\* C14: destroy with a destructor set runs it exactly once on each occupied
\* chunk 0 .. length-1, first to last, and only then releases the buffer and
\* after it the container object; it returns the context stored in the
\* container; without a destructor it runs nothing and releases both.
C14_Destroy ==
    Called("destroy") =>
        /\ ~alive
        /\ last.val = last.pre.resizeEventArgs
        /\ Finalized(last.calls) =
              IF last.pre.destroy
              THEN [k \in 1..last.pre.len |-> <<k - 1, Chunk(last.pre, k - 1)>>]
              ELSE <<>>
        /\ Len(last.calls) = Len(DestroyCalls) + 2
        /\ \A k \in 1..Len(DestroyCalls) : last.calls[k].k = "destroy"
        /\ last.calls[Len(last.calls) - 1].k = "free_chunks"
        /\ last.calls[Len(last.calls) - 1].base = last.pre.base
        /\ last.calls[Len(last.calls)].k = "free_c"

C14_Witness ==
    /\ Called("destroy") /\ last.pre.destroy
    /\ last.pre.resizeEventArgs \in Contexts /\ last.val = last.pre.resizeEventArgs
    /\ Content(last.pre) = <<Item(2, 2), Item(2, 1)>>
    /\ Finalized(last.calls) = <<<<0, Item(2, 2)>>, <<1, Item(2, 1)>>>>
    /\ Len(last.calls) = 4

\* C15: destroySoft runs no destructor, also when one is set, releases the
\* container object but not the buffer, and returns the buffer, whose first
\* length * width bytes are the bytes internalCopy returned when called just
\* before; internalCopy leaves the container unchanged, runs no destructor
\* and no resize handler, and returns the bytes of the occupied chunks.
C15_DestroySoft ==
    /\ Called("destroySoft") =>
          /\ last.calls = <<FreeEvt("free_c", last.pre)>>
          /\ ~alive
          /\ last.val = last.pre.base
          /\ last.dest = last.pre.chunks
          /\ \A p \in Malloc(last.pre) \ {NULL} :
                Load(last.dest, 0, last.pre.len * width)
                    = SubSeq(axc_internalCopy(last.pre, p).dest, 1, last.pre.len * width)
    /\ Called("internalCopy") =>
          /\ Self = last.pre
          /\ last.calls = <<>>
          /\ last.val # NULL =>
                /\ last.val # base
                /\ Len(last.dest) = MAX(len * width, 1)
                /\ SubSeq(last.dest, 1, len * width) = Flatten(Content(last.pre))

C15_Witness ==
    /\ Called("destroySoft") /\ last.pre.destroy
    /\ Content(last.pre) = <<Item(2, 2), Item(2, 1)>>
    /\ last.pre.cap = 3
    /\ SubSeq(last.dest, 1, 4) = Item(2, 2) \o Item(2, 1)

\* C16: a successful copy yields a container with the width, capacity and
\* length of the original and the same bytes in the occupied chunks, with no
\* destructor and no resize handler whatever the original has set, and
\* leaves the original unchanged; afterwards an operation on the original
\* leaves the copy unchanged and an operation on the copy leaves the
\* original unchanged.
C16_Copy ==
    /\ (Called("copy") /\ copy.made) =>
          /\ copy.c.width = width
          /\ copy.c.cap = cap
          /\ copy.c.len = len
          /\ Content(copy.c) = Content(Self)
          /\ ~copy.c.destroy
          /\ ~copy.c.resizeEventHandler
          /\ Self = last.pre
    /\ (Called("copy") /\ ~copy.made) => Self = last.pre /\ last.val = NULL
    /\ (Called("set") /\ copy.made) => copy.c = copy.pre
    /\ Called("setCopy") => Self = last.pre

C16_Witness ==
    /\ Called("setCopy") /\ ~last.fail
    /\ destroy /\ resizeEventHandler
    /\ last.i = 0
    /\ Content(Self) = <<Item(2, 1), Item(2, 2)>>
    /\ Content(copy.pre) = <<Item(2, 1), Item(2, 2)>>
    /\ Content(copy.c) = <<Item(2, 2), Item(2, 2)>>
    /\ ~copy.c.destroy /\ ~copy.c.resizeEventHandler

\* C17: swap(i1, i2) changes nothing when i1 = i2 or an index is >= length;
\* otherwise chunk i1 holds all width bytes chunk i2 held and chunk i2 those
\* chunk i1 held, every other chunk, the length and the capacity are
\* unchanged, and the same swap applied again restores the container; for
\* widths below, equal to and above 16, multiples of 16 or not.
C17_Swap ==
    Called("swap") =>
        IF last.i = last.j \/ last.i >= last.pre.len \/ last.j >= last.pre.len
        THEN Self = last.pre
        ELSE /\ Chunk(Self, last.i) = Chunk(last.pre, last.j)
             /\ Chunk(Self, last.j) = Chunk(last.pre, last.i)
             /\ \A k \in 0..(last.pre.len - 1) :
                   k \notin {last.i, last.j} => Chunk(Self, k) = Chunk(last.pre, k)
             /\ len = last.pre.len
             /\ cap = last.pre.cap
             /\ axc_swap(Self, last.i, last.j).c = last.pre

\* C18: get with index >= length, and pop and top on an empty container,
\* write no byte of the destination, leave the container unchanged and call
\* nothing; index returns NULL for index >= length (and the address of the
\* chunk otherwise) and leaves the container unchanged.
C18_OutOfRange ==
    /\ (\/ Called("get") /\ last.i >= last.pre.len
        \/ (Called("pop") \/ Called("top")) /\ last.pre.len = 0) =>
          /\ last.dest = Fill(width, Untouched)
          /\ Self = last.pre
          /\ last.calls = <<>>
    /\ Called("index") =>
          /\ Self = last.pre
          /\ last.i >= last.pre.len => last.val = NULL
          /\ last.i < last.pre.len => last.val = base + last.i * width

C18_Witness ==
    /\ Called("get") /\ last.pre.len = 2 /\ last.i = 2
    /\ last.pre.cap = 3
    /\ Chunk(last.pre, 2) = Item(2, 1)
    /\ last.dest = Fill(2, Untouched)

\* C19: for every w and n, 0 included, the container newSized(w, n) returns
\* has length 0, capacity max(n, 1), width max(w, 1), a buffer of
\* capacity * width bytes, no destructor and no resize handler.
C19_NewSized ==
    Called("newSized") =>
        /\ len = 0
        /\ cap = MAX(last.n, 1)
        /\ width = MAX(last.i, 1)
        /\ Len(chunks) = cap * width
        /\ ~destroy
        /\ ~resizeEventHandler

C19_Witness ==
    /\ Called("newSized") /\ last.i = 0 /\ last.n = 0
    /\ len = 0 /\ cap = 1 /\ width = 1 /\ Len(chunks) = 1
    /\ alive

\* C20 as stated: the destructor pass of write precedes its request for more
\* capacity, so a write with a destructor set that overlaps occupied chunks
\* and fails to grow has finalized the overlapped chunks.
C20_FailedWriteFinalized ==
    (Called("write") /\ last.fail /\ last.pre.destroy /\ last.n > 0
        /\ last.i < last.pre.len) =>
        DestroyedExactly({i \in last.i..(last.i + last.n - 1) : i < last.pre.len})

\* C20 amended: write asks for more capacity before its destructor pass; a
\* write that fails has run no destructor and no resize handler and leaves
\* the container exactly as it was, and it fails only when realloc_ does.
C20_FailedWriteRollsBack ==
    (Called("write") /\ last.fail) =>
        /\ DestroyCalls = <<>>
        /\ ResizeCalls = <<>>
        /\ Self = last.pre
        /\ Len(last.calls) = 1
        /\ last.calls[1].k = "realloc" /\ last.calls[1].base = NULL
        /\ last.i + last.n > last.pre.cap

C20_Witness ==
    /\ Called("write") /\ last.fail /\ last.pre.destroy
    /\ last.i = 1 /\ last.n = 2
    /\ Content(last.pre) = <<Item(2, 1), Item(2, 2)>>
    /\ last.pre.cap = 2
    /\ Content(Self) = <<Item(2, 1), Item(2, 2)>>

\* no byte of v is indeterminate: the caller stored all of them
Stored(v) == \A b \in 1..Len(v) : v[b] # Indet

\* C21: every chunk below the length holds bytes the caller stored through
\* push, set or write; no operation, a write at an index beyond the length
\* included, makes a chunk nobody wrote count as occupied or hands it to the
\* destructor, get, pop, top, read, foreach or filter.
C21_OccupiedWereStored ==
    /\ \A i \in 0..(len - 1) : Stored(Chunk(Self, i))
    /\ last.op # "idle" =>
          /\ \A k \in 1..Len(last.calls) :
                last.calls[k].k \in {"destroy", "visit"} => Stored(last.calls[k].v)
          /\ last.op \in {"get", "pop", "top", "read"} =>
                \A b \in 1..Len(last.dest) : last.dest[b] # Indet
          /\ Called("filter") => \A i \in 0..(last.pre.len - 1) : Stored(Chunk(last.pre, i))

\* C22: push asks for growth only when length = capacity, and then for
\* exactly 2 * capacity + 1 chunks in one resize; with length < capacity it
\* reallocates nothing, keeps the capacity and calls no resize handler; a
\* successful push raises the length by exactly 1 and the new last chunk
\* equals the pushed item.
C22_Push ==
    Called("push") =>
        /\ ReallocCalls # <<>> =>
              /\ last.pre.len = last.pre.cap
              /\ Len(ReallocCalls) = 1
              /\ ReallocCalls[1].i = (2 * last.pre.cap + 1) * width
        /\ last.pre.len = last.pre.cap => Len(ReallocCalls) = 1
        /\ last.pre.len < last.pre.cap =>
              /\ last.calls = <<>>
              /\ cap = last.pre.cap
              /\ ~last.fail
        /\ ~last.fail =>
              /\ len = last.pre.len + 1
              /\ Chunk(Self, len - 1) = last.item
              /\ cap = IF ReallocCalls = <<>> THEN last.pre.cap ELSE 2 * last.pre.cap + 1

\* C23: write(index, source, count) resizes nothing when index + count <=
\* capacity; when index + count > capacity it resizes exactly once, to
\* max(2 * capacity + 1, index + count) chunks; after a successful write
\* capacity >= index + count, and the resize handler ran at most once.
C23_WriteResizesOnce ==
    Called("write") =>
        LET need == last.i + last.n
            grown == MAX(2 * last.pre.cap + 1, need)
        IN /\ need <= last.pre.cap =>
                 /\ ReallocCalls = <<>>
                 /\ ResizeCalls = <<>>
                 /\ cap = last.pre.cap
                 /\ ~last.fail
           /\ need > last.pre.cap =>
                 /\ Len(ReallocCalls) = 1
                 /\ ReallocCalls[1].i = grown * width
                 /\ ~last.fail => cap = grown
                 /\ last.fail => cap = last.pre.cap
           /\ ~last.fail => cap >= need
           /\ Len(ResizeCalls) <= 1
           /\ Len(ResizeCalls) = 1 <=>
                 need > last.pre.cap /\ ~last.fail /\ resizeEventHandler

C23_Witness ==
    /\ Called("write")
    /\ ~last.fail
    /\ last.i + last.n > 2 * last.pre.cap + 1
    /\ last.pre.len > 0
    /\ Len(ResizeCalls) = 1
    /\ cap = last.i + last.n

\* C24: no operation reads or writes the buffer outside the byte offsets
\* [0, capacity * width), in any reachable state (after a resize to a smaller
\* capacity too) and for any index and count, the sums index + count being
\* taken in 64-bit wrap-around arithmetic; every chunk handed to the
\* destructor or to the function of foreach lies inside the allocation.
C24_InBounds ==
    /\ ~oob
    /\ last.op # "idle" =>
          \A k \in 1..Len(last.calls) :
              last.calls[k].k \in {"destroy", "visit"} => Below(last.calls[k].i, cap)

\* C25: over the lifetime of a container, through push, set, write, swap,
\* filter, discard, clear, resize and the final destroy, the destructor runs
\* at most once on each stored element: every slot it is called on is below
\* the length and holds an element the container still owns (not a slot
\* nobody stored to, not a stale copy that filter compaction, pop or discard
\* left behind, not an element it was called on before), and no slot gets
\* two calls in one operation.
C25_FinalizedOnce ==
    live.on /\ last.op # "idle" =>
        \A k \in 1..Len(DestroyCalls) :
            /\ DestroyCalls[k].i < last.pre.len
            /\ DestroyCalls[k].i \in live.before
            /\ \A j \in 1..Len(DestroyCalls) :
                   j # k => DestroyCalls[j].i # DestroyCalls[k].i

====
